---- MODULE Spec2Model ----
(***************************************************************************)
(* Model of the batch brief generator page (src/app/batch/page.tsx) and of *)
(* the upload component that feeds it (components/BatchUpload).            *)
(*                                                                         *)
(* The page is a React function component.  Its state is the six useState  *)
(* cells; handleGenerate is an async function whose synchronous segments   *)
(* (the code between two awaits) run to completion on the JavaScript event *)
(* loop, so each segment is one atomic action here.  While a fetch is in   *)
(* flight the user can still upload a file or pick another provider: the   *)
(* upload drop zone and the provider select are never disabled.            *)
(*                                                                         *)
(* Sequences are 1-based here and 0-based in the source: the loop variable *)
(* i and currentIndex keep the source's 0-based values, and results[i + 1] *)
(* is the source's results[i].                                             *)
(***************************************************************************)
EXTENDS Integers, Sequences, FiniteSets, TLC

\* Longest item list the parser hands to the page in this model.
MaxItems == 3

\* JavaScript null / undefined for values modelled as strings.  An absent or
\* empty string field ("" and undefined are both falsy) is modelled as "",
\* an absent or empty base64 string as the empty sequence <<>>.
None == "null"

Providers == {"claude", "openai"}

---------------------------------------------------------------------------
(* Inputs: what the parser and the two adapters can answer.                *)

\* Two rows can carry the same topic.
TopicOf(row) == IF row % 2 = 0 THEN "seo" ELSE "ppc"

\* The item list /api/parse-excel returns for a sheet of n data rows: the
\* header row is skipped, so rows count from 2.  The fields the page only
\* forwards to the adapters (url, keywords) are one fixed value.
ParsedItems(n) ==
    [k \in 1..n |-> [row |-> k + 1, url |-> "https://example.com",
                     topic |-> TopicOf(k + 1)]]

B64Alphabet ==
    << "A","B","C","D","E","F","G","H","I","J","K","L","M","N","O","P",
       "Q","R","S","T","U","V","W","X","Y","Z","a","b","c","d","e","f",
       "g","h","i","j","k","l","m","n","o","p","q","r","s","t","u","v",
       "w","x","y","z","0","1","2","3","4","5","6","7","8","9","+","/" >>

\* The base64 text of the one-byte document <<row>>: what the generation
\* adapter returns as document_base64 for the item of that row.
DocumentOf(row) ==
    << B64Alphabet[(row \div 4) + 1], B64Alphabet[((row % 4) * 16) + 1], "=", "=" >>

\* The adapter names the document after the topic.
FilenameOf(topic) == IF topic = "seo" THEN "seo_brief.docx" ELSE "ppc_brief.docx"

\* A settled fetch: rejected (a network error carrying message), or resolved
\* with the response's ok flag and a body that response.json() can read or
\* not; error, document_base64 and document_filename are the fields of the
\* parsed body that the page reads.
Settled(rejected, message, ok, readable, err, b64, fname) ==
    [rejected |-> rejected, message |-> message, ok |-> ok,
     readable |-> readable, error |-> err,
     document_base64 |-> b64, document_filename |-> fname]

NoResponse == Settled(FALSE, "", FALSE, FALSE, "", <<>>, "")

Rejections ==
    { Settled(TRUE, m, FALSE, FALSE, "", <<>>, "") : m \in {"Failed to fetch", ""} }

ResearchResponses ==
    Rejections \cup
    { Settled(FALSE, "", FALSE, TRUE, "Research failed", <<>>, ""),
      Settled(FALSE, "", TRUE, FALSE, "", <<>>, ""),
      Settled(FALSE, "", TRUE, TRUE, "", <<>>, "") }

GenerateResponses(item) ==
    Rejections \cup
    { Settled(FALSE, "", FALSE, FALSE, "", <<>>, ""),
      Settled(FALSE, "", FALSE, TRUE, "Provider error", <<>>, ""),
      Settled(FALSE, "", FALSE, TRUE, "", <<>>, ""),
      Settled(FALSE, "", TRUE, FALSE, "", <<>>, "") } \cup
    { Settled(FALSE, "", TRUE, TRUE, "", b64, fname) :
        b64 \in {<<>>, DocumentOf(item.row)},
        fname \in {"", FilenameOf(item.topic)} }

---------------------------------------------------------------------------
(* State.                                                                  *)

VARIABLES
    provider,       \* useState('claude')
    items,          \* useState<BatchItem[]>([])
    results,        \* useState<BatchResult[]>([])
    isProcessing,   \* useState(false)
    currentIndex,   \* useState(0)
    error,          \* useState<string | null>(null)
    pc,             \* where the handleGenerate call is suspended: "idle" (no
                    \* call), "research" or "generate" (awaiting that fetch)
    runItems,       \* items as captured by the running handleGenerate closure
    runProvider,    \* provider as captured by its processItem closure
    i,              \* the loop variable of handleGenerate
    researchData,   \* the local of processItem
    finalResults,   \* the local of handleGenerate
    event,          \* the handler or continuation that ran last, with its input
                    \* and, for a download, the archive handed to the browser
    uploadError,    \* BatchUpload: useState<string | null>(null)
    parsing,        \* BatchUpload: parseExcel calls awaiting /api/parse-excel
    homeProvider,   \* Home: useState('claude') (provider)
    briefData,      \* Home: useState<any>(null)
    isGenerating,   \* Home: useState(false)
    progress,       \* Home: useState(0)
    progressText,   \* Home: useState('')
    homeError,      \* Home: useState<string | null>(null) (error)
    autoResearch,   \* BriefForm: useState(true)
    homePc,         \* where Home's handleGenerate is suspended: "idle",
                    \* "research" or "generate"
    formData,       \* the argument of the running handleGenerate call, with
                    \* the provider its closure holds
    homeResearchData \* the local researchData of Home's handleGenerate

vars == << provider, items, results, isProcessing, currentIndex, error, pc,
           runItems, runProvider, i, researchData, finalResults, event,
           uploadError, parsing, homeProvider, briefData, isGenerating,
           progress, progressText, homeError, autoResearch, homePc, formData,
           homeResearchData >>

pageState == << provider, items, results, isProcessing, currentIndex, error >>
runLocals == << pc, runItems, runProvider, i, researchData, finalResults >>
uploadState == << uploadError, parsing >>
homeState == << homeProvider, briefData, isGenerating, progress, progressText,
                homeError, autoResearch >>
homeLocals == << homePc, formData, homeResearchData >>
batchPage == << pageState, runLocals, uploadState >>
singlePage == << homeState, homeLocals >>

Event(name, response, downloaded, archive) ==
    [name |-> name, response |-> response,
     downloaded |-> downloaded, archive |-> archive]

Init ==
    /\ provider = "claude"
    /\ items = <<>>
    /\ results = <<>>
    /\ isProcessing = FALSE
    /\ currentIndex = 0
    /\ error = None
    /\ pc = "idle"
    /\ runItems = <<>>
    /\ runProvider = "claude"
    /\ i = 0
    /\ researchData = None
    /\ finalResults = <<>>
    /\ event = Event("mount", NoResponse, FALSE, <<>>)
    /\ uploadError = None
    /\ parsing = 0
    /\ homeProvider = "claude"
    /\ briefData = None
    /\ isGenerating = FALSE
    /\ progress = 0
    /\ progressText = ""
    /\ homeError = None
    /\ autoResearch = TRUE
    /\ homePc = "idle"
    /\ formData = [autoResearch |-> TRUE, provider |-> "claude"]
    /\ homeResearchData = None

---------------------------------------------------------------------------
(* processItem (lines 68-123): the result built from the settled fetches.  *)

\* The catch block, lines 115-122.
ErrorResult(item, message) ==
    [row |-> item.row, topic |-> item.topic, status |-> "error",
     error |-> IF message # "" THEN message ELSE "Unknown error",
     documentBase64 |-> <<>>, documentFilename |-> ""]

\* The return of the try block, lines 107-113.
SuccessResult(item, data) ==
    [row |-> item.row, topic |-> item.topic, status |-> "success",
     error |-> "",
     documentBase64 |-> data.document_base64,
     documentFilename |-> data.document_filename]

\* The message of what a rejected fetch or a failed response.json() throws.
ThrownMessage(resp) ==
    IF resp.rejected THEN resp.message ELSE "Unexpected token in JSON"

\* Lines 71-83: the await of the fetch throws when it rejects, and the await
\* of researchResponse.json(), reached only when the response is ok, throws
\* when the body is unreadable.  Both land in the catch block.
ResearchThrows(resp) == resp.rejected \/ (resp.ok /\ ~resp.readable)

\* Lines 80-83: researchData stays null unless the response is ok.
ResearchDataOf(resp) == IF resp.ok THEN "research" ELSE None

\* Lines 86-105: the fetch rejects, or json() fails on either branch, or the
\* response is not ok and line 102 throws.
GenerateThrows(resp) == resp.rejected \/ ~resp.readable \/ ~resp.ok

\* Line 102: err.error || 'Generation failed'.
GenerateMessage(resp) ==
    IF resp.rejected \/ ~resp.readable THEN ThrownMessage(resp)
    ELSE IF resp.error # "" THEN resp.error ELSE "Generation failed"

\* What processItem returns once the generate fetch has settled.
GenerateResult(item, resp) ==
    IF GenerateThrows(resp)
    THEN ErrorResult(item, GenerateMessage(resp))
    ELSE SuccessResult(item, resp)

---------------------------------------------------------------------------
(* handleGenerate (lines 125-162).                                         *)

\* A handler without its guard.
NoItems_GuardDropped(its) == FALSE

\* Line 126.
NoItems(its) == Len(its) = 0

\* Lines 133-137.
InitialResults(its) ==
    [k \in 1..Len(its) |->
        [row |-> its[k].row, topic |-> its[k].topic, status |-> "pending",
         error |-> "", documentBase64 |-> <<>>, documentFilename |-> ""]]

\* An update that marks the item and puts every other entry back to pending.
MarkProcessing_ResetsOthers(prev, idx) ==
    [k \in 1..Len(prev) |->
        IF k = idx + 1
        THEN [prev[k] EXCEPT !.status = "processing"]
        ELSE [prev[k] EXCEPT !.status = "pending"]]

\* An update that marks the item and every one after it.
MarkProcessing_MarksRest(prev, idx) ==
    [k \in 1..Len(prev) |->
        IF k >= idx + 1 THEN [prev[k] EXCEPT !.status = "processing"] ELSE prev[k]]

\* Lines 147-149: prev.map((r, idx) => idx === i ? {...r, status: 'processing'} : r).
MarkProcessing(prev, idx) ==
    [k \in 1..Len(prev) |->
        IF k = idx + 1 THEN [prev[k] EXCEPT !.status = "processing"] ELSE prev[k]]

\* An update that writes the result one entry too far.
WriteResult_WritesNext(prev, idx, result) ==
    [k \in 1..Len(prev) |-> IF k = idx + 2 THEN result ELSE prev[k]]

\* An update that loses the result.
WriteResult_Skips(prev, idx, result) == prev

\* Lines 156-158: prev.map((r, idx) => idx === i ? result : r).
WriteResult(prev, idx, result) ==
    [k \in 1..Len(prev) |-> IF k = idx + 1 THEN result ELSE prev[k]]

\* A loop that stops one item early.
LoopContinues_StopsEarly(idx, its) == idx + 1 < Len(its)

\* Line 143: the loop condition.
LoopContinues(idx, its) == idx < Len(its)

\* The fetch the suspended call is waiting for, with the body it sent.
NoRequest ==
    [api |-> None, provider |-> None, url |-> None, topic |-> None,
     research_data |-> None]

\* A request body that reads the provider the page holds at the moment.
Request_ReadsSelection ==
    IF pc = "research"
    THEN [api |-> "/api/research", provider |-> None,
          url |-> runItems[i + 1].url, topic |-> runItems[i + 1].topic,
          research_data |-> None]
    ELSE IF pc = "generate"
    THEN [api |-> "/api/generate", provider |-> provider,
          url |-> runItems[i + 1].url, topic |-> runItems[i + 1].topic,
          research_data |-> researchData]
    ELSE NoRequest

Request ==
    IF pc = "research"
    THEN [api |-> "/api/research", provider |-> None,
          url |-> runItems[i + 1].url, topic |-> runItems[i + 1].topic,
          research_data |-> None]
    ELSE IF pc = "generate"
    THEN [api |-> "/api/generate", provider |-> runProvider,
          url |-> runItems[i + 1].url, topic |-> runItems[i + 1].topic,
          research_data |-> researchData]
    ELSE NoRequest

\* A click that is accepted while a run is in progress.
handleGenerate_Unguarded ==
    /\ event' = Event("handleGenerate", NoResponse, FALSE, <<>>)
    /\ IF NoItems(items)
       THEN UNCHANGED << pageState, runLocals >>
       ELSE /\ error' = None
            /\ currentIndex' = 0
            /\ runItems' = items
            /\ runProvider' = provider
            /\ i' = 0
            /\ researchData' = None
            /\ finalResults' = <<>>
            /\ isProcessing' = TRUE
            /\ results' = MarkProcessing(InitialResults(items), 0)
            /\ pc' = "research"
            /\ UNCHANGED << provider, items >>

\* The click on "Generate All Briefs" up to the first await: lines 126-152
\* and the fetch of line 71 for item 0.  The button is rendered only while
\* items is non-empty (line 192) and is disabled while isProcessing (line
\* 196); the handler checks for an empty list itself (line 126).  React
\* applies the queued updates in order, so the functional update of line
\* 147 sees initialResults.
handleGenerate ==
    /\ ~isProcessing
    /\ event' = Event("handleGenerate", NoResponse, FALSE, <<>>)
    /\ IF NoItems(items)
       THEN UNCHANGED << pageState, runLocals >>
       ELSE /\ error' = None
            /\ currentIndex' = 0
            /\ runItems' = items
            /\ runProvider' = provider
            /\ i' = 0
            /\ researchData' = None
            /\ finalResults' = <<>>
            /\ IF LoopContinues(0, items)
               THEN /\ isProcessing' = TRUE
                    /\ results' = MarkProcessing(InitialResults(items), 0)
                    /\ pc' = "research"
               ELSE /\ isProcessing' = FALSE
                    /\ results' = InitialResults(items)
                    /\ pc' = "idle"
            /\ UNCHANGED << provider, items >>

\* A continuation that gives up on the batch when an item failed.
Continue_AbortsOnError(result) ==
    LET written == WriteResult(results, i, result) IN
    /\ finalResults' = Append(finalResults, result)
    /\ i' = i + 1
    /\ researchData' = None
    /\ IF LoopContinues(i + 1, runItems) /\ result.status # "error"
       THEN /\ currentIndex' = i + 1
            /\ results' = MarkProcessing(written, i + 1)
            /\ pc' = "research"
            /\ UNCHANGED isProcessing
       ELSE /\ results' = written
            /\ isProcessing' = FALSE
            /\ pc' = "idle"
            /\ UNCHANGED currentIndex
    /\ UNCHANGED << provider, items, error, runItems, runProvider >>

\* A continuation that leaves the page in the processing state after the
\* last item.
Continue_NeverFinishes(result) ==
    LET written == WriteResult(results, i, result) IN
    /\ finalResults' = Append(finalResults, result)
    /\ i' = i + 1
    /\ researchData' = None
    /\ IF LoopContinues(i + 1, runItems)
       THEN /\ currentIndex' = i + 1
            /\ results' = MarkProcessing(written, i + 1)
            /\ pc' = "research"
       ELSE /\ results' = written
            /\ pc' = "idle"
            /\ UNCHANGED currentIndex
    /\ UNCHANGED << provider, items, error, isProcessing, runItems, runProvider >>

\* A continuation that sends the research request of a failed item again.
Continue_RetriesOnError(result) ==
    IF result.status = "error"
    THEN /\ pc' = "research"
         /\ researchData' = None
         /\ UNCHANGED << pageState, runItems, runProvider, i, finalResults >>
    ELSE Continue_AbortsOnError(result)

\* A continuation that moves on to the next item without moving the cursor.
Continue_CursorLags(result) ==
    LET written == WriteResult(results, i, result) IN
    /\ finalResults' = Append(finalResults, result)
    /\ i' = i + 1
    /\ researchData' = None
    /\ IF LoopContinues(i + 1, runItems)
       THEN /\ results' = MarkProcessing(written, i + 1)
            /\ pc' = "research"
            /\ UNCHANGED isProcessing
       ELSE /\ results' = written
            /\ isProcessing' = FALSE
            /\ pc' = "idle"
    /\ UNCHANGED << provider, items, error, currentIndex, runItems, runProvider >>

\* processItem has returned result for item i: lines 153-158, then either
\* the next iteration up to its first await (lines 143-152, 71) or line 161.
Continue(result) ==
    LET written == WriteResult(results, i, result) IN
    /\ finalResults' = Append(finalResults, result)
    /\ i' = i + 1
    /\ researchData' = None
    /\ IF LoopContinues(i + 1, runItems)
       THEN /\ currentIndex' = i + 1
            /\ results' = MarkProcessing(written, i + 1)
            /\ pc' = "research"
            /\ UNCHANGED isProcessing
       ELSE /\ results' = written
            /\ isProcessing' = FALSE
            /\ pc' = "idle"
            /\ UNCHANGED currentIndex
    /\ UNCHANGED << provider, items, error, runItems, runProvider >>

\* The research fetch settles (lines 71-83).  The arrival of the response
\* and the reading of its body are one step: nothing the page shows changes
\* between them.
researchSettles ==
    /\ pc = "research"
    /\ \E resp \in ResearchResponses :
         /\ event' = Event("research", resp, FALSE, <<>>)
         /\ IF ResearchThrows(resp)
            THEN Continue(ErrorResult(runItems[i + 1], ThrownMessage(resp)))
            ELSE /\ researchData' = ResearchDataOf(resp)
                 /\ pc' = "generate"
                 /\ UNCHANGED << pageState, runItems, runProvider, i, finalResults >>

\* The generate fetch settles (lines 86-122).
generateSettles ==
    /\ pc = "generate"
    /\ \E resp \in GenerateResponses(runItems[i + 1]) :
         /\ event' = Event("generate", resp, FALSE, <<>>)
         /\ Continue(GenerateResult(runItems[i + 1], resp))

---------------------------------------------------------------------------
(* The other handlers of the page.                                         *)

\* An upload that forgets to clear the results of the previous sheet.
handleFileUpload_KeepsResults ==
    \E n \in 0..MaxItems :
        /\ items' = ParsedItems(n)
        /\ error' = None
        /\ event' = Event("handleFileUpload", NoResponse, FALSE, <<>>)
        /\ UNCHANGED << results, provider, isProcessing, currentIndex, runLocals >>

\* Lines 33-37, called by BatchUpload with the parsed items.
handleFileUpload ==
    \E n \in 0..MaxItems :
        /\ items' = ParsedItems(n)
        /\ results' = <<>>
        /\ error' = None
        /\ event' = Event("handleFileUpload", NoResponse, FALSE, <<>>)
        /\ UNCHANGED << provider, isProcessing, currentIndex, runLocals >>

\* Line 182: ProviderSelect reports a new selection.
setProvider ==
    \E p \in Providers \ {provider} :
        /\ provider' = p
        /\ event' = Event("setProvider", NoResponse, FALSE, <<>>)
        /\ UNCHANGED << items, results, isProcessing, currentIndex, error, runLocals >>

\* A count that takes every finished item for a success.
successCount_CountsTerminal ==
    Cardinality({k \in 1..Len(results) : results[k].status \in {"success", "error"}})

\* Lines 164-166.
successCount == Cardinality({k \in 1..Len(results) : results[k].status = "success"})
errorCount == Cardinality({k \in 1..Len(results) : results[k].status = "error"})
hasResults == \E k \in 1..Len(results) : results[k].status \in {"success", "error"}

\* Math.round of the quotient num / den of two naturals, den > 0: halves go
\* up.
Round(num, den) == (2 * num + den) \div (2 * den)

\* The progress bar is rendered inside the block of line 192 and under the
\* condition of line 213.
ProgressShown == Len(items) > 0 /\ isProcessing

\* The percentage of line 217, computed from the items and the currentIndex
\* the page holds when it renders.
ProgressPercent == Round((currentIndex + 1) * 100, Len(items))

\* A download button that is rendered as soon as one item has succeeded.
DownloadOffered_DuringRun == Len(results) > 0 /\ successCount > 0

\* Lines 239 and 295: when the download button is rendered.
DownloadOffered == Len(results) > 0 /\ successCount > 0 /\ ~isProcessing

---------------------------------------------------------------------------
(* handleDownloadZip (lines 39-66).                                        *)

IsB64Char(c) == \E k \in 1..Len(B64Alphabet) : B64Alphabet[k] = c
B64Value(c) == (CHOOSE k \in 1..Len(B64Alphabet) : B64Alphabet[k] = c) - 1

\* atob first drops one or two trailing "=" of a text whose length is a
\* multiple of four.
StripPadding(s) ==
    IF Len(s) > 0 /\ Len(s) % 4 = 0 /\ s[Len(s)] = "="
    THEN IF s[Len(s) - 1] = "="
         THEN SubSeq(s, 1, Len(s) - 2)
         ELSE SubSeq(s, 1, Len(s) - 1)
    ELSE s

\* Four characters give three bytes; a tail of three gives two and a tail
\* of two gives one, the spare low bits being dropped.
RECURSIVE DecodeGroups(_)
DecodeGroups(s) ==
    IF Len(s) >= 4
    THEN LET n == B64Value(s[1]) * 262144 + B64Value(s[2]) * 4096
                  + B64Value(s[3]) * 64 + B64Value(s[4])
         IN  << n \div 65536, (n \div 256) % 256, n % 256 >>
             \o DecodeGroups(SubSeq(s, 5, Len(s)))
    ELSE IF Len(s) = 3
    THEN LET n == B64Value(s[1]) * 4096 + B64Value(s[2]) * 64 + B64Value(s[3])
         IN  << n \div 1024, (n \div 4) % 256 >>
    ELSE IF Len(s) = 2
    THEN << (B64Value(s[1]) * 64 + B64Value(s[2])) \div 16 >>
    ELSE << >>

\* Lines 48-52: atob and the copy of its characters into a Uint8Array.
\* atob throws on a character outside the alphabet and on a length that
\* leaves a single character over.
AtobThrows(s) ==
    LET t == StripPadding(s)
    IN  Len(t) % 4 = 1 \/ \E k \in 1..Len(t) : ~IsB64Char(t[k])

Atob(s) == DecodeGroups(StripPadding(s))

\* An archive that puts each new entry first.
ZipFile_Prepends(zip, name, bytes) ==
    IF \E k \in 1..Len(zip) : zip[k].name = name
    THEN [k \in 1..Len(zip) |->
            IF zip[k].name = name THEN [name |-> name, bytes |-> bytes] ELSE zip[k]]
    ELSE << [name |-> name, bytes |-> bytes] >> \o zip

\* Line 53, zip.file(name, bytes): JSZip keeps its entries in an object keyed
\* by name, so a name already present keeps its place and gets the new data.
ZipFile(zip, name, bytes) ==
    IF \E k \in 1..Len(zip) : zip[k].name = name
    THEN [k \in 1..Len(zip) |->
            IF zip[k].name = name THEN [name |-> name, bytes |-> bytes] ELSE zip[k]]
    ELSE Append(zip, [name |-> name, bytes |-> bytes])

\* Line 40.
IsSuccessResult(r) == r.status = "success" /\ r.documentBase64 # <<>>
successResults(rs) == SelectSeq(rs, IsSuccessResult)

\* Line 46.
HasDocument(r) == r.documentBase64 # <<>> /\ r.documentFilename # ""

\* Lines 43-55: the archive after the first n of the filtered results.
RECURSIVE ZipOf(_, _)
ZipOf(rs, n) ==
    IF n = 0 THEN << >>
    ELSE IF HasDocument(rs[n])
         THEN ZipFile(ZipOf(rs, n - 1), rs[n].documentFilename,
                      Atob(rs[n].documentBase64))
         ELSE ZipOf(rs, n - 1)

\* An atob that throws rejects the handler before line 57.
ZipThrows(rs) ==
    \E k \in 1..Len(rs) : HasDocument(rs[k]) /\ AtobThrows(rs[k].documentBase64)

\* The click on "Download All Briefs (ZIP)", rendered only when
\* DownloadOffered.  Lines 57-65 hand the archive to the browser.
handleDownloadZip ==
    /\ DownloadOffered
    /\ LET chosen == successResults(results)
       IN  event' =
             IF Len(chosen) = 0 \/ ZipThrows(chosen)
             THEN Event("handleDownloadZip", NoResponse, FALSE, << >>)
             ELSE Event("handleDownloadZip", NoResponse, TRUE,
                        ZipOf(chosen, Len(chosen)))
    /\ UNCHANGED << pageState, runLocals >>

---------------------------------------------------------------------------

---------------------------------------------------------------------------
(* Home, the single-brief page (src/app/page.tsx), with BriefForm.         *)

\* What the two adapters can answer on the single-brief page.
HomeResearchResponses ==
    Rejections \cup
    { Settled(FALSE, "", FALSE, TRUE, "Site unreachable", <<>>, ""),
      Settled(FALSE, "", FALSE, TRUE, "", <<>>, ""),
      Settled(FALSE, "", FALSE, FALSE, "", <<>>, ""),
      Settled(FALSE, "", TRUE, FALSE, "", <<>>, ""),
      Settled(FALSE, "", TRUE, TRUE, "", <<>>, "") }

HomeGenerateResponses ==
    Rejections \cup
    { Settled(FALSE, "", FALSE, TRUE, "Provider error", <<>>, ""),
      Settled(FALSE, "", FALSE, TRUE, "", <<>>, ""),
      Settled(FALSE, "", FALSE, FALSE, "", <<>>, ""),
      Settled(FALSE, "", TRUE, FALSE, "", <<>>, ""),
      Settled(FALSE, "", TRUE, TRUE, "", <<>>, "") }

\* The body of an ok generate response: the brief, a JSON object.
Brief == "brief"

\* A research step that lets a non-ok response through, as the batch page
\* does.
HomeResearchThrows_OnlyOnOk(resp) == resp.rejected \/ (resp.ok /\ ~resp.readable)

\* Lines 37-46: the fetch rejects, json() fails on either branch, or the
\* response is not ok and line 44 throws.
HomeResearchThrows(resp) == resp.rejected \/ ~resp.readable \/ ~resp.ok

\* Lines 53-73, the same for the generate fetch (line 70).
HomeGenerateThrows(resp) == resp.rejected \/ ~resp.readable \/ ~resp.ok

\* Lines 44 and 70: err.error || fallback, or what the failed await threw.
HomeMessage(resp, fallback) ==
    IF resp.rejected \/ ~resp.readable THEN ThrownMessage(resp)
    ELSE IF resp.error # "" THEN resp.error ELSE fallback

\* Line 80: err.message || 'An error occurred'.
HomeErrorOf(message) == IF message # "" THEN message ELSE "An error occurred"

\* Lines 79-83: the catch block and the finally block.
HomeFails(message) ==
    /\ homeError' = HomeErrorOf(message)
    /\ isGenerating' = FALSE
    /\ homePc' = "idle"
    /\ homeResearchData' = None
    /\ UNCHANGED << homeProvider, briefData, progress, progressText,
                    autoResearch, formData >>

\* Lines 50-66: the second step up to the await of the generate fetch.
HomeStartsGenerate ==
    /\ progress' = 50
    /\ progressText' = "Generating brief with AI..."
    /\ homePc' = "generate"

\* The fetch the suspended call is waiting for, with what its body says of
\* the provider and the research.
HomeRequest ==
    IF homePc = "research"
    THEN [api |-> "/api/research", provider |-> None, research_data |-> None]
    ELSE IF homePc = "generate"
    THEN [api |-> "/api/generate", provider |-> formData.provider,
          research_data |-> homeResearchData]
    ELSE [api |-> None, provider |-> None, research_data |-> None]

\* A submit that leaves the brief of the previous attempt on the page.
Home_handleGenerate_KeepsBrief ==
    /\ ~isGenerating
    /\ event' = Event("homeSubmit", NoResponse, FALSE, <<>>)
    /\ isGenerating' = TRUE
    /\ homeError' = None
    /\ formData' = [autoResearch |-> autoResearch, provider |-> homeProvider]
    /\ homeResearchData' = None
    /\ IF autoResearch
       THEN /\ progress' = 10
            /\ progressText' = "Researching website..."
            /\ homePc' = "research"
       ELSE HomeStartsGenerate
    /\ UNCHANGED << homeProvider, autoResearch, briefData, batchPage >>

\* The form is submitted (BriefForm handleSubmit, its button disabled while
\* isLoading): handleGenerate of lines 16-37 up to its first await, which is
\* the research fetch when formData.autoResearch is set and the generate
\* fetch otherwise.
Home_handleGenerate ==
    /\ ~isGenerating
    /\ event' = Event("homeSubmit", NoResponse, FALSE, <<>>)
    /\ isGenerating' = TRUE
    /\ homeError' = None
    /\ briefData' = None
    /\ formData' = [autoResearch |-> autoResearch, provider |-> homeProvider]
    /\ homeResearchData' = None
    /\ IF autoResearch
       THEN /\ progress' = 10
            /\ progressText' = "Researching website..."
            /\ homePc' = "research"
       ELSE HomeStartsGenerate
    /\ UNCHANGED << homeProvider, autoResearch, batchPage >>

\* The research fetch settles: lines 42-51 and 53.
Home_researchSettles ==
    /\ homePc = "research"
    /\ \E resp \in HomeResearchResponses :
         /\ event' = Event("homeResearch", resp, FALSE, <<>>)
         /\ IF HomeResearchThrows(resp)
            THEN HomeFails(HomeMessage(resp, "Research failed"))
            ELSE /\ homeResearchData' = ResearchDataOf(resp)
                 /\ HomeStartsGenerate
                 /\ UNCHANGED << homeProvider, briefData, isGenerating,
                                 homeError, autoResearch, formData >>
    /\ UNCHANGED batchPage

\* The generate fetch settles: lines 68-83.
Home_generateSettles ==
    /\ homePc = "generate"
    /\ \E resp \in HomeGenerateResponses :
         /\ event' = Event("homeGenerate", resp, FALSE, <<>>)
         /\ IF HomeGenerateThrows(resp)
            THEN HomeFails(HomeMessage(resp, "Generation failed"))
            ELSE /\ progress' = 100
                 /\ progressText' = "Complete!"
                 /\ briefData' = Brief
                 /\ isGenerating' = FALSE
                 /\ homePc' = "idle"
                 /\ homeResearchData' = None
                 /\ UNCHANGED << homeProvider, homeError, autoResearch, formData >>
    /\ UNCHANGED batchPage

\* Line 100: ProviderSelect reports a new selection.
Home_setProvider ==
    \E p \in Providers \ {homeProvider} :
        /\ homeProvider' = p
        /\ event' = Event("homeSetProvider", NoResponse, FALSE, <<>>)
        /\ UNCHANGED << briefData, isGenerating, progress, progressText,
                        homeError, autoResearch, homeLocals, batchPage >>

\* BriefForm: the auto-research checkbox is toggled.
setAutoResearch ==
    /\ autoResearch' = ~autoResearch
    /\ event' = Event("setAutoResearch", NoResponse, FALSE, <<>>)
    /\ UNCHANGED << homeProvider, briefData, isGenerating, progress,
                    progressText, homeError, homeLocals, batchPage >>

\* The single-brief page.
NextHome ==
    \/ Home_handleGenerate
    \/ Home_researchSettles
    \/ Home_generateSettles
    \/ Home_setProvider
    \/ setAutoResearch

SpecHome == Init /\ [][NextHome]_vars

---------------------------------------------------------------------------
(* BatchUpload: the upload component with its parse request.               *)

MaxParses == 1

\* File names, as the characters String.endsWith looks at.
Xlsx == << ".", "x", "l", "s", "x" >>

\* String.prototype.endsWith.
EndsWith(name, suffix) ==
    /\ Len(name) >= Len(suffix)
    /\ SubSeq(name, Len(name) - Len(suffix) + 1, Len(name)) = suffix

\* files?.[0]: a file with its name, or none.
NoFile == [present |-> FALSE, name |-> << >>]

Files ==
    { [present |-> TRUE, name |-> nm] :
        nm \in { << "a" >> \o Xlsx,
                 << "a", ".", "c", "s", "v" >>,
                 Xlsx \o << ".", "b", "a", "k" >> } }

\* What /api/parse-excel can answer.  An ok response with a readable body
\* carries the items of the sheet.
ParseResponses ==
    Rejections \cup
    { Settled(FALSE, "", FALSE, TRUE, "Invalid Excel file", <<>>, ""),
      Settled(FALSE, "", FALSE, TRUE, "", <<>>, ""),
      Settled(FALSE, "", FALSE, FALSE, "", <<>>, ""),
      Settled(FALSE, "", TRUE, FALSE, "", <<>>, ""),
      Settled(FALSE, "", TRUE, TRUE, "", <<>>, "") }

\* Lines 31-41: the fetch rejects, json() fails on either branch, or the
\* response is not ok and line 38 throws.
ParseThrows(resp) == resp.rejected \/ ~resp.readable \/ ~resp.ok

\* Lines 38 and 44: the message the catch block shows.
UploadErrorOf(resp) ==
    LET message == IF resp.rejected \/ ~resp.readable THEN ThrownMessage(resp)
                   ELSE IF resp.error # "" THEN resp.error
                   ELSE "Failed to parse Excel file"
    IN  IF message # "" THEN message ELSE "Failed to parse file"

\* parseExcel up to its await: lines 24-34.
parseExcel ==
    /\ parsing < MaxParses
    /\ uploadError' = None
    /\ parsing' = parsing + 1
    /\ UNCHANGED << pageState, runLocals >>

\* Lines 48-53: a file chosen in the dialog is parsed whatever its name;
\* closing the dialog without a file does nothing.
handleFileChange ==
    \E file \in Files \cup {NoFile} :
        /\ event' = Event("handleFileChange", NoResponse, FALSE, <<>>)
        /\ IF file.present
           THEN parseExcel
           ELSE UNCHANGED << pageState, runLocals, uploadState >>

\* Lines 55-65.
handleDrop ==
    \E file \in Files \cup {NoFile} :
        /\ event' = Event("handleDrop", NoResponse, FALSE, <<>>)
        /\ IF file.present /\ EndsWith(file.name, Xlsx)
           THEN parseExcel
           ELSE /\ uploadError' = "Please upload an .xlsx file"
                /\ UNCHANGED << pageState, runLocals, parsing >>

\* A continuation whose catch block also reports an empty sheet to the page.
parseSettles_UploadsOnFailure ==
    /\ parsing > 0
    /\ parsing' = parsing - 1
    /\ \E resp \in ParseResponses :
         IF ParseThrows(resp)
         THEN /\ uploadError' = UploadErrorOf(resp)
              /\ event' = Event("parseExcel", resp, FALSE, <<>>)
              /\ items' = <<>>
              /\ results' = <<>>
              /\ error' = None
              /\ UNCHANGED << provider, isProcessing, currentIndex, runLocals >>
         ELSE /\ handleFileUpload
              /\ UNCHANGED uploadError

\* The parse request settles: lines 36-45.  A failure sets the component's
\* error; a success calls onUpload, which is handleFileUpload of the page.
parseSettles ==
    /\ parsing > 0
    /\ parsing' = parsing - 1
    /\ \E resp \in ParseResponses :
         IF ParseThrows(resp)
         THEN /\ uploadError' = UploadErrorOf(resp)
              /\ event' = Event("parseExcel", resp, FALSE, <<>>)
              /\ UNCHANGED << pageState, runLocals >>
         ELSE /\ handleFileUpload
              /\ UNCHANGED uploadError

\* The page with the upload taken as one step: a successful parse hands its
\* items to handleFileUpload; the upload component's own state stays out.
Next ==
    \/ setProvider /\ UNCHANGED << uploadState, singlePage >>
    \/ handleFileUpload /\ UNCHANGED << uploadState, singlePage >>
    \/ handleGenerate /\ UNCHANGED << uploadState, singlePage >>
    \/ researchSettles /\ UNCHANGED << uploadState, singlePage >>
    \/ generateSettles /\ UNCHANGED << uploadState, singlePage >>
    \/ handleDownloadZip /\ UNCHANGED << uploadState, singlePage >>

\* The page together with the upload component.
NextUpload ==
    \/ handleFileChange /\ UNCHANGED singlePage
    \/ handleDrop /\ UNCHANGED singlePage
    \/ parseSettles /\ UNCHANGED singlePage
    \/ setProvider /\ UNCHANGED << uploadState, singlePage >>
    \/ handleGenerate /\ UNCHANGED << uploadState, singlePage >>
    \/ researchSettles /\ UNCHANGED << uploadState, singlePage >>
    \/ generateSettles /\ UNCHANGED << uploadState, singlePage >>
    \/ handleDownloadZip /\ UNCHANGED << uploadState, singlePage >>

Spec == Init /\ [][Next]_vars

\* The run under the assumption that every fetch settles: the awaits of
\* lines 71 and 86 resume once the response has arrived or the request has
\* failed.
SpecFair ==
    /\ Spec
    /\ WF_vars(researchSettles /\ UNCHANGED << uploadState, singlePage >>)
    /\ WF_vars(generateSettles /\ UNCHANGED << uploadState, singlePage >>)

SpecUpload == Init /\ [][NextUpload]_vars

---------------------------------------------------------------------------
(* Properties.                                                             *)

Terminal(r) == r.status \in {"success", "error"}

\* A run has just completed: the last step was the settling of a fetch and
\* it left handleGenerate (line 161).
RunJustCompleted == pc = "idle" /\ event.name \in {"research", "generate"}

\* C1: a batch run records exactly one terminal result per item, in the
\* items' input order, and all of them before isProcessing is set back to
\* false.  finalResults is the run's own record (line 153); every entry is
\* also written to the results state (lines 156-158), which shows them in
\* the same order as long as it still holds this run's rows.
C1_OneResultPerItemInOrder ==
    /\ Len(finalResults) = i
    /\ \A k \in 1..Len(finalResults) :
         /\ Terminal(finalResults[k])
         /\ finalResults[k].row = runItems[k].row
         /\ finalResults[k].topic = runItems[k].topic
    /\ isProcessing => Len(finalResults) < Len(runItems)
    /\ ~isProcessing => Len(finalResults) = Len(runItems)
    /\ Len(results) = Len(runItems) =>
         \A k \in 1..Len(finalResults) : results[k] = finalResults[k]

C1_Witness ==
    /\ RunJustCompleted
    /\ Len(runItems) = 3
    /\ results = finalResults
    /\ \A k \in 1..3 : Terminal(results[k]) /\ results[k].row = k + 1

\* The step in which the generate fetch of item i settles.
GenerateSettled == pc = "generate" /\ i' = i + 1

\* The generation adapter failed: no response, a non-OK response, or a body
\* that cannot be read.
GenerationFailed(resp) == resp.rejected \/ ~resp.ok \/ ~resp.readable

\* C2: a generation failure of item k becomes an error result for item k
\* only and never aborts the batch.  Whenever a generate fetch settles, the
\* run appends one result for that item whose status is decided by that
\* response alone (error exactly when the adapter failed), leaves every
\* earlier result as it was, and goes on to the next item if there is one;
\* a completed run has a result for every item whatever the statuses are.
C2_FailureIsLocal ==
    /\ [][GenerateSettled =>
            /\ Len(finalResults') = Len(finalResults) + 1
            /\ SubSeq(finalResults', 1, Len(finalResults)) = finalResults
            /\ finalResults'[i + 1].row = runItems[i + 1].row
            /\ finalResults'[i + 1].status =
                 (IF GenerationFailed(event'.response) THEN "error" ELSE "success")
            /\ \A k \in 1..Len(results) :
                 k \notin {i + 1, i + 2} => results'[k] = results[k]
            /\ IF i + 1 < Len(runItems)
               THEN isProcessing' /\ pc' = "research" /\ currentIndex' = i + 1
               ELSE ~isProcessing' /\ pc' = "idle"]_vars
    /\ [](~isProcessing => Len(finalResults) = Len(runItems))

\* Three items, the second one failing in generation: success, error, success.
C2_Witness ==
    /\ RunJustCompleted
    /\ event.name = "generate"
    /\ Len(results) = 3
    /\ results[1].status = "success"
    /\ results[2].status = "error"
    /\ results[2].error = "Provider error"
    /\ results[3].status = "success"

\* The research adapter failed: no response, a non-OK response, or a body
\* that cannot be read.
ResearchFailed(resp) == resp.rejected \/ ~resp.ok \/ ~resp.readable

\* C3: a failure of the research adapter is never an item failure.  Right
\* after a failed research fetch has settled, the item has no result yet and
\* is waiting for its generate fetch, sent with research_data = null; and
\* the status recorded when a generate fetch settles is that of generation.
C3_ResearchFailureIsNotItemFailure ==
    /\ (event.name = "research" /\ ResearchFailed(event.response)) =>
         /\ pc = "generate"
         /\ Request.api = "/api/generate"
         /\ Request.research_data = None
         /\ Len(finalResults) = i
    /\ (event.name = "generate" /\ Len(finalResults) > 0) =>
         finalResults[Len(finalResults)].status =
           (IF GenerationFailed(event.response) THEN "error" ELSE "success")

\* The part of C3 the code keeps: a non-OK research response.
C3_NonOkResearchProceeds ==
    /\ event.name = "research"
    /\ ~event.response.rejected /\ ~event.response.ok
    /\ pc = "generate"
    /\ Request.research_data = None

\* The last step was a click on the download button; the page state is
\* still the one the click saw.
JustDownloaded == event.name = "handleDownloadZip"

\* The archive entries holding the document generated for the given row
\* (the adapter's document for a row is the single byte <<row>>).
EntriesOf(archive, row) ==
    {a \in 1..Len(archive) : archive[a].bytes = << row >>}

\* C4: for a run with at least one success, the assembled archive holds
\* exactly one entry for each result with status success and none for a
\* result with status error.
C4_ArchiveHoldsExactlyTheSuccesses ==
    (JustDownloaded /\ successCount > 0) =>
        /\ event.downloaded
        /\ Len(event.archive) = successCount
        /\ \A k \in 1..Len(results) :
             /\ results[k].status = "success" =>
                  Cardinality(EntriesOf(event.archive, results[k].row)) = 1
             /\ results[k].status = "error" =>
                  EntriesOf(event.archive, results[k].row) = {}

\* C5: two successful items with the same documentFilename never overwrite
\* each other in the archive: both documents are entries of it, the earlier
\* row's under the shared name and the later row's under another name.
C5_SameFilenameNeverOverwrites ==
    JustDownloaded =>
        \A j, k \in 1..Len(results) :
            ( /\ j < k
              /\ results[j].status = "success" /\ HasDocument(results[j])
              /\ results[k].status = "success" /\ HasDocument(results[k])
              /\ results[j].documentFilename = results[k].documentFilename ) =>
            /\ \E a \in EntriesOf(event.archive, results[j].row) :
                 event.archive[a].name = results[j].documentFilename
            /\ \E b \in EntriesOf(event.archive, results[k].row) :
                 event.archive[b].name # results[k].documentFilename

\* A result that is what the data model allows: a success with a document
\* and no error, or an error with a message and no document.
WellFormed(r) ==
    /\ r.status = "success" =>
         r.documentBase64 # <<>> /\ r.documentFilename # "" /\ r.error = ""
    /\ r.status = "error" =>
         r.error # "" /\ r.documentBase64 = <<>> /\ r.documentFilename = ""

\* C6: every terminal result is well-formed, and a generation response that
\* is OK but carries no encoded document is recorded as an error.
C6_TerminalResultsAreWellFormed ==
    /\ \A k \in 1..Len(finalResults) : WellFormed(finalResults[k])
    /\ \A k \in 1..Len(results) : WellFormed(results[k])
    /\ ( /\ event.name = "generate"
         /\ ~GenerationFailed(event.response)
         /\ event.response.document_base64 = <<>> ) =>
       finalResults[Len(finalResults)].status = "error"

\* C7: items are processed strictly one at a time.  At most one entry of
\* results is 'processing'; an entry that is no longer pending has only
\* terminal entries before it; and the fetch in flight belongs to the item
\* that follows the ones already recorded, all of which are terminal.
C7_OneItemAtATime ==
    /\ Cardinality({k \in 1..Len(results) : results[k].status = "processing"}) <= 1
    /\ \A k \in 1..Len(results) :
         results[k].status # "pending" =>
            \A j \in 1..(k - 1) : Terminal(results[j])
    /\ Request.api # None =>
         /\ isProcessing
         /\ Len(finalResults) = i
         /\ Request.topic = runItems[Len(finalResults) + 1].topic
         /\ \A j \in 1..Len(finalResults) : Terminal(finalResults[j])
         /\ Len(results) = Len(runItems) =>
              /\ results[i + 1].status = "processing"
              /\ \A j \in (i + 2)..Len(results) : results[j].status = "pending"

C7_Witness ==
    /\ pc = "generate"
    /\ Len(results) = 3
    /\ results[1].status = "error"
    /\ results[2].status = "processing"
    /\ results[3].status = "pending"

\* C8: when a run finishes, the results list holds exactly one terminal
\* entry for every item of the batch that was run, in input order, each the
\* item's real outcome, whatever the user did on the page meanwhile.
C8_FinishedRunShowsEveryResult ==
    RunJustCompleted =>
        /\ Len(results) = Len(runItems)
        /\ \A k \in 1..Len(runItems) :
             /\ Terminal(results[k])
             /\ results[k].row = runItems[k].row
             /\ results[k] = finalResults[k]

\* C10: starting a run on an empty item list is a no-op.  The step of
\* handleGenerate on an empty list changes neither the progress state nor
\* the run, issues no fetch and leaves no archive on offer.
C10_EmptyRunIsNoOp ==
    [][(event'.name = "handleGenerate" /\ ~isProcessing /\ Len(items) = 0) =>
          /\ UNCHANGED << isProcessing, currentIndex, results, items, error >>
          /\ UNCHANGED << pc, i, finalResults >>
          /\ Request' = NoRequest
          /\ ~DownloadOffered']_vars

\* handleGenerate ran on an empty list in a state whose cursor a previous
\* run had moved.
C10_Witness ==
    /\ event.name = "handleGenerate"
    /\ Len(items) = 0
    /\ currentIndex > 0
    /\ ~isProcessing
    /\ Len(finalResults) > 0

\* Every item of the last run failed.
AllItemsFailed ==
    /\ Len(finalResults) > 0
    /\ \A k \in 1..Len(finalResults) : finalResults[k].status = "error"

\* C11: when every item of a run fails, the run still completes with one
\* error result per item and there is nothing to assemble.  Once such a run
\* is over its record holds an error for every item, the results list shows
\* that record unless an upload has emptied it since, the filter of line 40
\* selects nothing and the download button is not rendered.
C11_AllFailedNothingToAssemble ==
    (~isProcessing /\ AllItemsFailed) =>
        /\ Len(finalResults) = Len(runItems)
        /\ \A k \in 1..Len(runItems) : finalResults[k].row = runItems[k].row
        /\ results = finalResults \/ results = << >>
        /\ \A k \in 1..Len(results) : results[k].status = "error"
        /\ Len(successResults(results)) = 0
        /\ successCount = 0
        /\ ~DownloadOffered

\* A run of three items has just ended with three errors on show.
C11_Witness ==
    /\ RunJustCompleted
    /\ AllItemsFailed
    /\ Len(results) = 3
    /\ errorCount = 3

\* C12: whenever a run is complete and at least one item has status
\* success, the download is offered, and invoking it hands over an archive
\* with at least one entry.
C12_OfferedDownloadIsNeverEmpty ==
    /\ (~isProcessing /\ successCount > 0) => DownloadOffered
    /\ JustDownloaded => (event.downloaded /\ Len(event.archive) >= 1)

\* The offer itself is kept: a finished run with a success shows the button.
C12_OfferReached ==
    /\ RunJustCompleted
    /\ successCount > 0
    /\ DownloadOffered

\* The results that put an entry into the archive (lines 40 and 46), by index.
Archived(rs) ==
    {k \in 1..Len(rs) : rs[k].status = "success" /\ HasDocument(rs[k])}

\* The first archived result carrying the given name.
FirstWithName(rs, name) ==
    CHOOSE k \in Archived(rs) :
        /\ rs[k].documentFilename = name
        /\ \A j \in Archived(rs) : rs[j].documentFilename = name => k <= j

\* C13: assembly is idempotent and deterministic and leaves the results
\* alone.  A click on the download button changes no page state, and a
\* second click on the same results hands over the same archive as the
\* first; the archive is fixed by the results: its names are the filenames
\* of the archived results, each once, in the row-ascending order in which
\* they were first inserted, and each entry holds the document of a result
\* of that name.
C13_AssemblyIsIdempotent ==
    /\ [][event'.name = "handleDownloadZip" =>
            /\ UNCHANGED << provider, items, results, isProcessing, currentIndex, error >>
            /\ JustDownloaded =>
                 /\ event'.archive = event.archive
                 /\ event'.downloaded = event.downloaded]_vars
    /\ [](JustDownloaded =>
            LET zip == event.archive IN
            /\ event.downloaded <=> (Len(successResults(results)) > 0)
            /\ {zip[a].name : a \in 1..Len(zip)} =
                 {results[k].documentFilename : k \in Archived(results)}
            /\ \A a, b \in 1..Len(zip) :
                 a < b => FirstWithName(results, zip[a].name)
                            < FirstWithName(results, zip[b].name)
            /\ \A a \in 1..Len(zip) :
                 \E k \in Archived(results) :
                    /\ results[k].documentFilename = zip[a].name
                    /\ zip[a].bytes = << results[k].row >>)

\* An archive of two entries was handed over for three results.
C13_Witness ==
    /\ JustDownloaded
    /\ event.downloaded
    /\ Len(results) = 3
    /\ Len(event.archive) = 2

\* C14: in every reachable state results is no longer than items, and the
\* rows of results are pairwise different and are rows of the current items.
C14_ResultsWithinItems ==
    /\ Len(results) <= Len(items)
    /\ \A j, k \in 1..Len(results) : j # k => results[j].row # results[k].row
    /\ \A k \in 1..Len(results) :
         \E m \in 1..Len(items) : items[m].row = results[k].row

\* A sheet was uploaded during a run that had already finished an item.
C14_Witness ==
    /\ event.name = "handleFileUpload"
    /\ isProcessing
    /\ Len(finalResults) >= 1
    /\ Len(items) < Len(runItems)
    /\ Len(items) >= 1

\* The number of entries of results in a terminal state.
TerminalCount == Cardinality({k \in 1..Len(results) : Terminal(results[k])})

\* C15 as stated: at all times the number of terminal items equals the
\* length of results, which never holds a placeholder entry.
C15_ResultsHoldOnlyTerminalEntries == TerminalCount = Len(results)

\* C15 as amended: results holds one entry per item from the start of the
\* run, a placeholder (pending or processing) until the item finishes.  The
\* terminal count never exceeds the length of results; while a run is in
\* progress and the list has not been emptied by an upload it equals the
\* number of items that have finished and the other entries are
\* placeholders; when no run is in progress it equals the length of results.
C15_TerminalCountTracksFinishedItems ==
    /\ TerminalCount <= Len(results)
    /\ (isProcessing /\ Len(results) > 0) =>
         /\ TerminalCount = Len(finalResults)
         /\ TerminalCount < Len(results)
         /\ \A k \in (Len(finalResults) + 1)..Len(results) :
              results[k].status \in {"pending", "processing"}
    /\ ~isProcessing => TerminalCount = Len(results)

\* One item finished, one in process, one pending.
C15_Witness ==
    /\ isProcessing
    /\ Len(results) = 3
    /\ TerminalCount = 1
    /\ results[2].status = "processing"
    /\ results[3].status = "pending"
    /\ event.name = "research"

\* C16: result ordering matches item input ordering.  Whenever results is
\* non-empty, results[k] has the row and the topic of items[k] for every
\* index k, whichever items have finished.
C16_ResultsFollowItemOrder ==
    \A k \in 1..Len(results) :
        /\ k <= Len(items)
        /\ results[k].row = items[k].row
        /\ results[k].topic = items[k].topic

\* The second of three items is done (the first failed) and the third is
\* still to come.
C16_Witness ==
    /\ isProcessing
    /\ Len(results) = 3
    /\ items = runItems
    /\ results[1].status = "error"
    /\ results[2].status = "success"
    /\ results[3].status = "processing"

\* The place of a status on the path pending -> processing -> terminal.
Rank(status) ==
    IF status = "pending" THEN 0 ELSE IF status = "processing" THEN 1 ELSE 2

\* C17: within a run each item's status only moves forward along pending ->
\* processing -> (success | error), and once an item is terminal its result
\* entry never changes again for the rest of the run.  For every step taken
\* while a run is in progress, every entry of results is still there after
\* the step, at the same or the next status, and unchanged if it was
\* terminal.
C17_StatusOnlyMovesForward ==
    [][isProcessing =>
         \A k \in 1..Len(results) :
            /\ k <= Len(results')
            /\ Rank(results'[k].status) >= Rank(results[k].status)
            /\ Rank(results'[k].status) <= Rank(results[k].status) + 1
            /\ Terminal(results[k]) => results'[k] = results[k]]_vars

\* A step of the run itself: a continuation of handleGenerate after an await.
RunStep == event'.name \in {"research", "generate"}

\* C18: every started run terminates and completes exactly once.  Provided
\* every fetch settles, isProcessing eventually becomes false; it becomes
\* false only in the step of the run that has processed the last item of the
\* run; and while isProcessing is false the run takes no step and only a new
\* click or an upload changes results.
C18_RunCompletesExactlyOnce ==
    /\ isProcessing ~> ~isProcessing
    /\ [][(isProcessing /\ ~isProcessing') =>
            /\ RunStep
            /\ i' = Len(runItems)
            /\ Len(finalResults') = Len(runItems)]_vars
    /\ [][~isProcessing =>
            /\ ~RunStep
            /\ (results' # results =>
                  event'.name \in {"handleGenerate", "handleFileUpload"})]_vars

C18_Witness ==
    /\ ~isProcessing
    /\ pc = "idle"
    /\ event.name = "research"
    /\ i = 3
    /\ Len(runItems) = 3
    /\ finalResults[3].status = "error"
    /\ finalResults[1].status = "success"

\* C19: no adapter call is retried.  Within a run the position (i, pc) only
\* moves forward: a step of the run either passes from the research request
\* of item i to its generate request, or leaves item i for good, whether the
\* call that settled succeeded or failed; no other step but a new run moves
\* the position.  Each request is therefore sent at most once per item.
C19_NoAdapterCallIsRetried ==
    [][/\ RunStep =>
            \/ pc = "research" /\ pc' = "generate" /\ i' = i
            \/ /\ i' = i + 1
               /\ pc' = (IF i + 1 < Len(runItems) THEN "research" ELSE "idle")
       /\ (~RunStep /\ event'.name # "handleGenerate") => (pc' = pc /\ i' = i)
      ]_vars

C19_Witness ==
    /\ pc = "research"
    /\ i = 1
    /\ event.name = "generate"
    /\ finalResults[1].status = "error"
    /\ Request.topic = runItems[2].topic

\* C20: at most one batch run is in progress at any time.  A run has a
\* pending continuation exactly while isProcessing is true; a click starts a
\* run only while isProcessing is false; and while a run is in progress only
\* its own steps move currentIndex and its position, items and provider, and
\* only its own steps and an upload change results, so the writes of two
\* runs never interleave.
C20_AtMostOneRunInProgress ==
    /\ [](isProcessing <=> pc # "idle")
    /\ [][(event'.name = "handleGenerate" /\ isProcessing') =>
            ~isProcessing /\ pc = "idle"]_vars
    /\ [][(isProcessing /\ ~RunStep) =>
            /\ currentIndex' = currentIndex
            /\ runLocals' = runLocals
            /\ isProcessing'
            /\ (results' # results => event'.name = "handleFileUpload")]_vars

C20_Witness ==
    /\ isProcessing
    /\ event.name = "setProvider"
    /\ provider # runProvider
    /\ i = 2
    /\ currentIndex = 2
    /\ Len(finalResults) = 2

\* C21: progress reporting is monotonic and bounded.  During a run
\* currentIndex never decreases, and the percentage the progress bar shows
\* lies in 1..100 and never decreases, also when an upload replaces the
\* items while the run is in progress.
C21_ProgressMonotonicAndBounded ==
    /\ [](ProgressShown => ProgressPercent \in 1..100)
    /\ [][(isProcessing /\ isProcessing') =>
            /\ currentIndex' >= currentIndex
            /\ (ProgressShown /\ ProgressShown') =>
                   ProgressPercent' >= ProgressPercent]_vars

\* A state in which the bar of a run at its third item is drawn against a
\* list of one item.
C21_ProgressBeyondItems ==
    /\ ProgressShown
    /\ ProgressPercent = 300
    /\ currentIndex = 2
    /\ event.name = "handleFileUpload"
    /\ Len(items) = 1

\* C22: the archive can only be assembled from a finished run.  Whenever the
\* download button is offered, no run is in progress (no continuation is
\* pending) and no entry of results is pending or processing.
C22_DownloadOnlyFromFinishedRun ==
    DownloadOffered =>
        /\ ~isProcessing
        /\ pc = "idle"
        /\ \A k \in 1..Len(results) : Terminal(results[k])

C22_Witness ==
    /\ DownloadOffered
    /\ Len(results) = 2
    /\ results[1].status = "error"
    /\ results[2].status = "success"
    /\ event.name = "handleDownloadZip"

\* C23: cursor invariant during a run.  While a run is in progress, every
\* entry of results at an index below currentIndex is terminal, every entry
\* at an index above currentIndex is pending, and the entry at currentIndex
\* is the one that is processing.
C23_CursorInvariant ==
    isProcessing =>
        \A k \in 1..Len(results) :
            /\ k - 1 < currentIndex => Terminal(results[k])
            /\ k - 1 > currentIndex => results[k].status = "pending"
            /\ k - 1 = currentIndex => results[k].status = "processing"

C23_Witness ==
    /\ isProcessing
    /\ currentIndex = 1
    /\ Len(results) = 3
    /\ results[1].status = "success"
    /\ results[2].status = "processing"
    /\ results[3].status = "pending"
    /\ pc = "generate"

\* C24: every generation call of a run uses the provider that was selected
\* when the run started.  The run's provider is the selection at the click
\* that started it, it does not change while the run is in progress, and
\* every generate request carries it, whatever the selection is by then.
C24_RunKeepsItsProvider ==
    /\ [](pc = "generate" =>
            /\ Request.api = "/api/generate"
            /\ Request.provider = runProvider)
    /\ [][(event'.name = "handleGenerate" /\ isProcessing') =>
            runProvider' = provider]_vars
    /\ [][isProcessing => runProvider' = runProvider]_vars

C24_Witness ==
    /\ pc = "generate"
    /\ i = 1
    /\ event.name = "setProvider"
    /\ provider = "openai"
    /\ Request.provider = "claude"

\* C25: marking item i as processing and writing item i's terminal result
\* each change only the entry at index i.  Applied to any results the page
\* can hold, each update keeps the length and every other entry, the mark
\* changes only the status of its entry, and the write puts the result
\* there; a step of the run changes results by these two updates alone and
\* leaves items unchanged.
C25_UpdatesTouchOnlyTheirEntry ==
    /\ [](\A idx \in 0..MaxItems :
            LET marked == MarkProcessing(results, idx)
                written == WriteResult(results, idx, ErrorResult(runItems[1], "x"))
            IN  Len(runItems) > 0 =>
                /\ Len(marked) = Len(results)
                /\ Len(written) = Len(results)
                /\ \A k \in 1..Len(results) :
                     /\ k # idx + 1 => (marked[k] = results[k] /\ written[k] = results[k])
                     /\ k = idx + 1 =>
                          /\ marked[k] = [results[k] EXCEPT !.status = "processing"]
                          /\ written[k] = ErrorResult(runItems[1], "x"))
    /\ [][RunStep =>
            /\ items' = items
            /\ Len(results') = Len(results)
            /\ \A k \in 1..Len(results) :
                 /\ (i' = i \/ k \notin {i + 1, i + 2}) => results'[k] = results[k]
                 /\ (i' = i + 1 /\ k = i + 1) => results'[k] = finalResults'[i + 1]
                 /\ (i' = i + 1 /\ k = i + 2) =>
                      results'[k] = [results[k] EXCEPT !.status = "processing"]]_vars

C25_Witness ==
    /\ event.name = "generate"
    /\ i = 1
    /\ Len(results) = 3
    /\ results[1].status = "success"
    /\ results[2].status = "processing"
    /\ results[3].status = "pending"
    /\ pc = "research"

\* C26: the number of entries in the assembled archive equals the success
\* count shown on the download button, and no result counted as a success
\* is left out of the archive.
C26_ArchiveSizeIsSuccessCount ==
    JustDownloaded =>
        /\ Len(event.archive) = successCount
        /\ \A k \in 1..Len(results) :
             results[k].status = "success" =>
                 EntriesOf(event.archive, results[k].row) # {}

\* A download whose archive is smaller than the count on its button.
C26_FewerFilesThanShown ==
    /\ JustDownloaded
    /\ event.downloaded
    /\ successCount = 2
    /\ Len(event.archive) = 1

\* The last step was a failed upload: a parse that threw, or a drop that
\* was turned away.
UploadFailed ==
    \/ event'.name = "parseExcel"
    \/ event'.name = "handleDrop" /\ parsing' = parsing

\* C27: a failed upload leaves the batch state unchanged.  When the parse
\* fails or a dropped file is not .xlsx, onUpload is not called: items,
\* results and the rest of the page keep their values and only the upload
\* error is set; a successful upload replaces items and clears results and
\* the page error in one step.
C27_FailedUploadLeavesBatchState ==
    /\ [][UploadFailed =>
            /\ uploadError' # None
            /\ pageState' = pageState
            /\ runLocals' = runLocals]_vars
    /\ [][event'.name = "parseExcel" =>
            /\ ParseThrows(event'.response)
            /\ uploadError' = UploadErrorOf(event'.response)]_vars
    /\ [][event'.name = "handleFileUpload" =>
            /\ \E n \in 0..MaxItems : items' = ParsedItems(n)
            /\ results' = << >>
            /\ error' = None
            /\ uploadError' = uploadError
            /\ parsing' = parsing - 1]_vars

C27_Witness ==
    /\ event.name = "parseExcel"
    /\ ~event.response.ok
    /\ uploadError = "Invalid Excel file"
    /\ Len(items) = 2
    /\ Len(results) = 2
    /\ results[1].status = "success"

\* C28: single-brief generation always ends in exactly one outcome.  When
\* handleGenerate has finished, isGenerating is false and exactly one of
\* briefData and error is non-null: briefData when the brief was generated,
\* error when research or generation failed; and progress is 100 only when
\* briefData is set.
C28_ExactlyOneOutcome ==
    /\ [](isGenerating <=> homePc # "idle")
    /\ [](progress = 100 => briefData # None)
    /\ [][(isGenerating /\ ~isGenerating') =>
            /\ (briefData' # None) # (homeError' # None)
            /\ (briefData' # None) <=>
                 (event'.name = "homeGenerate" /\ event'.response.ok
                    /\ event'.response.readable)]_vars
    /\ []((~isGenerating /\ event.name # "mount") =>
            ((briefData # None) # (homeError # None)) \/
            (briefData = None /\ homeError = None /\ progress = 0))

C28_Witness ==
    /\ ~isGenerating
    /\ event.name = "homeGenerate"
    /\ homeError = "Generation failed"
    /\ briefData = None
    /\ progress = 50

\* C29: in single-brief mode generation is never invoked before research
\* has finished.  With auto-research enabled the generate request is sent
\* only in the step in which the research response arrived ok and was read,
\* a research failure ends the attempt with an error and no generate
\* request; with auto-research disabled no research request is sent and the
\* generate request carries research_data = null.
C29_GenerateOnlyAfterResearch ==
    /\ [][(homePc # "generate" /\ homePc' = "generate") =>
            IF formData'.autoResearch
            THEN /\ homePc = "research"
                 /\ event'.name = "homeResearch"
                 /\ event'.response.ok /\ event'.response.readable
                 /\ ~event'.response.rejected
                 /\ HomeRequest'.research_data = "research"
            ELSE /\ homePc = "idle"
                 /\ event'.name = "homeSubmit"
                 /\ HomeRequest'.research_data = None]_vars
    /\ [][(event'.name = "homeResearch"
             /\ ~(event'.response.ok /\ event'.response.readable)) =>
            /\ homePc' = "idle"
            /\ homeError' # None
            /\ ~isGenerating']_vars
    /\ [](homePc = "research" => formData.autoResearch)
    /\ [](homePc = "generate" =>
            HomeRequest.research_data =
                (IF formData.autoResearch THEN "research" ELSE None))

C29_Witness ==
    /\ homePc = "generate"
    /\ ~formData.autoResearch
    /\ HomeRequest.research_data = None
    /\ autoResearch
    /\ event.name = "setAutoResearch"

\* The other case of C29: a research answer that was not ok ended the
\* attempt.
C29_ResearchFailureEnds ==
    /\ event.name = "homeResearch"
    /\ ~event.response.ok
    /\ homePc = "idle"
    /\ homeError = "Site unreachable"

====
